---- MODULE Spec2Model ----
(***************************************************************************)
(* Model of plugins/ModelChecker/ModelChecker.py.                          *)
(*                                                                         *)
(* The plugin scans the scene for sliceable nodes, looks up the shrinkage  *)
(* of the material in each node's extruder, compares the node's bounding   *)
(* box with two fixed sizes, and shows one of two messages.                *)
(*                                                                         *)
(* Encodings                                                               *)
(*   - Python's Optional: None is <<>>, a value v is <<v>>.                *)
(*   - A decoration value (callDecoration) is "True", "False" or "None"    *)
(*     (no decorator answers the call).                                    *)
(*   - Shrinkage percentages are floats in the source; the model counts    *)
(*     them in tenths of a percent, so 0.5 is 5 and 0.6 is 6.              *)
(*   - A call's outcome is a record: raised is "" for a normal return and  *)
(*     the exception's name otherwise.                                     *)
(***************************************************************************)
EXTENDS Integers, Sequences, FiniteSets, TLC

VARIABLES
    scene,            \* the host's scene: [n, children, attrs]
    stack,            \* Application.getGlobalContainerStack(): Optional
    button_view,      \* self._button_view: Optional view id
    views_created,    \* calls of addAdditionalComponent("jobSpecsButton", ..)
    has_warnings,     \* self._has_warnings
    happy_visible,    \* self._happy_message is shown
    caution_visible,  \* self._caution_message is shown
    caution_text,     \* text of self._caution_message
    initialized,      \* the application has emitted initializationFinished
    material_connected, \* connections rootMaterialChanged -> onChanged
    emitted,          \* emissions of the onChanged signal so far
    warning_nodes,    \* outcome of the last checkObjectsForShrinkage call
    poll              \* outcome of the last read of the runChecks property

vars == <<scene, stack, button_view, views_created, has_warnings,
          happy_visible, caution_visible, caution_text, initialized,
          material_connected, emitted, warning_nodes, poll>>

----------------------------------------------------------------------------
(* Program constants, ModelChecker.py lines 19-21.                         *)

\* 0.5 percent, in tenths of a percent.
SHRINKAGE_THRESHOLD == 5
WARNING_SIZE_XY == 150
WARNING_SIZE_Z == 100

(* Bounds of the model.                                                    *)

\* Nodes below the root in the scenes the check is applied to.
MaxNodes == 2
\* Nodes below the root in the scenes of the running plugin.
MaxPluginNodes == 2
\* Emissions of onChanged that are counted.
MaxEmit == 3

----------------------------------------------------------------------------
(* Values.                                                                 *)

None == <<>>
Some(v) == <<v>>

Root == 0

\* Bounding boxes <<width, depth, height>>: below every limit, and exactly
\* on one limit each.
BBoxes ==
    { <<WARNING_SIZE_XY - 1, WARNING_SIZE_XY - 1, WARNING_SIZE_Z - 1>>,
      <<WARNING_SIZE_XY,     WARNING_SIZE_XY - 1, WARNING_SIZE_Z - 1>>,
      <<WARNING_SIZE_XY - 1, WARNING_SIZE_XY,     WARNING_SIZE_Z - 1>>,
      <<WARNING_SIZE_XY - 1, WARNING_SIZE_XY - 1, WARNING_SIZE_Z>> }

BigBox == <<WARNING_SIZE_XY + 1, WARNING_SIZE_XY + 1, WARNING_SIZE_Z + 1>>

ExtruderPositions == {"0", "1"}

Node(sliceable, position, bbox) ==
    [isSliceable |-> sliceable, extruder |-> position,
     width |-> bbox[1], depth |-> bbox[2], height |-> bbox[3]]

\* Every sliceable node over the boxes and extruders, and oversized nodes
\* that are not sliceable (decoration False, or no decorator at all).
NodeKinds ==
    { Node("True", e, b) : e \in ExtruderPositions, b \in BBoxes }
    \cup { Node("False", "0", BigBox), Node("None", "1", BigBox) }

PluginNodeKinds == { Node("True", "0", BigBox) }

\* material_shrinkage_percentage of a material: unset, on the threshold,
\* above it.
ShrinkageValues == { None, Some(SHRINKAGE_THRESHOLD), Some(SHRINKAGE_THRESHOLD + 1) }

\* The extruders of a global container stack, by position.
ExtruderMaps ==
    UNION { [D -> ShrinkageValues] : D \in (SUBSET ExtruderPositions) \ {{}} }

Stacks == { None } \cup { Some(m) : m \in ExtruderMaps }

PluginStacks == { None } \cup { Some(m) : m \in [{"0"} -> ShrinkageValues] }

----------------------------------------------------------------------------
(* The scene graph: nodes 1..n below the root, each node's children in     *)
(* order, and each node's decorations and bounding box.                    *)

EmptyScene == [n |-> 0, children |-> [i \in {Root} |-> <<>>], attrs |-> <<>>]

InsertAt(s, k, x) == SubSeq(s, 1, k - 1) \o <<x>> \o SubSeq(s, k, Len(s))

\* SceneNode.addChild of a new node under parent, as the k-th child.
AddChild(sc, parent, k, kind) ==
    LET id == sc.n + 1 IN
    [n |-> id,
     children |-> [i \in 0..id |->
                     IF i = id THEN <<>>
                     ELSE IF i = parent THEN InsertAt(sc.children[i], k, id)
                     ELSE sc.children[i]],
     attrs |-> Append(sc.attrs, kind)]

RECURSIVE ScenesOfSize(_, _)
ScenesOfSize(n, kinds) ==
    IF n = 0 THEN { EmptyScene }
    ELSE UNION { UNION { { AddChild(sc, p, k, kind) :
                             k \in 1..(Len(sc.children[p]) + 1), kind \in kinds } :
                         p \in 0..(n - 1) } :
                 sc \in ScenesOfSize(n - 1, kinds) }

ScenesUpTo(n, kinds) == UNION { ScenesOfSize(m, kinds) : m \in 0..n }

CheckScenes == ScenesUpTo(MaxNodes, NodeKinds)

PluginScenes == ScenesUpTo(MaxPluginNodes, PluginNodeKinds)

getName(node) == "n" \o ToString(node)

----------------------------------------------------------------------------
(* The host's queries the plugin uses.                                     *)

\* node.callDecoration(name): the root carries no decorator.
callDecoration(sc, node, name) ==
    IF node = Root THEN "None"
    ELSE IF name = "isSliceable" THEN sc.attrs[node].isSliceable
    ELSE IF name = "getActiveExtruderPosition" THEN sc.attrs[node].extruder
    ELSE "None"

\* Truth value of a decoration in an if.
Truthy(v) == v = "True"

\* DepthFirstIterator(scene.getRoot()): the root, then each child's subtree
\* in the order of the children.
RECURSIVE VisitNode(_, _)
RECURSIVE VisitAll(_, _)
VisitNode(sc, node) == <<node>> \o VisitAll(sc, sc.children[node])
VisitAll(sc, nodes) ==
    IF nodes = <<>> THEN <<>>
    ELSE VisitNode(sc, Head(nodes)) \o VisitAll(sc, Tail(nodes))

DepthFirstIterator(sc) == VisitNode(sc, Root)

----------------------------------------------------------------------------
(* The plugin's functions.                                                 *)

Return(v) == [raised |-> "", value |-> v]
Raise(e) == [raised |-> e, value |-> <<>>]

\* getMaterialShrinkage: {} without a stack, else each extruder's shrinkage
\* with None replaced by 0.
getMaterialShrinkage(st) ==
    IF st = None THEN <<>>
    ELSE LET extruders == st[1] IN
         [position \in DOMAIN extruders |->
            LET shrinkage == extruders[position] IN
            IF shrinkage = None THEN 0 ELSE shrinkage[1]]

\* The traversal with every node that answers the isSliceable call, whatever
\* the answer.
sliceableNodesDecorated(sc) ==
    SelectSeq(DepthFirstIterator(sc),
              LAMBDA node : callDecoration(sc, node, "isSliceable") # "None")

\* sliceableNodes: the nodes of the traversal whose isSliceable decoration
\* is true, in the traversal's order.
sliceableNodes(sc) ==
    SelectSeq(DepthFirstIterator(sc),
              LAMBDA node : Truthy(callDecoration(sc, node, "isSliceable")))

\* The size test of line 68.
TooLarge(bbox) ==
    \/ bbox.width >= WARNING_SIZE_XY
    \/ bbox.depth >= WARNING_SIZE_XY
    \/ bbox.height >= WARNING_SIZE_Z

\* The shrinkage test with the threshold itself counted as too much.
ShrinksTooMuchOrEqual(shrinkage) == shrinkage >= SHRINKAGE_THRESHOLD

\* The shrinkage test of line 66.
ShrinksTooMuch(shrinkage) == shrinkage > SHRINKAGE_THRESHOLD

\* The loop of lines 64-69 over the nodes left, warning_nodes so far in acc.
\* material_shrinkage[position] raises KeyError for a missing position.
RECURSIVE CheckLoop(_, _, _, _)
CheckLoop(sc, material_shrinkage, nodes, acc) ==
    IF nodes = <<>> THEN Return(acc)
    ELSE LET node == Head(nodes)
             node_extruder_position ==
                 callDecoration(sc, node, "getActiveExtruderPosition")
         IN IF node_extruder_position \notin DOMAIN material_shrinkage
            THEN Raise("KeyError")
            ELSE IF /\ ShrinksTooMuch(material_shrinkage[node_extruder_position])
                    /\ TooLarge(sc.attrs[node])
                 THEN CheckLoop(sc, material_shrinkage, Tail(nodes), Append(acc, node))
                 ELSE CheckLoop(sc, material_shrinkage, Tail(nodes), acc)

checkObjectsForShrinkage(sc, st) ==
    CheckLoop(sc, getMaterialShrinkage(st), sliceableNodes(sc), <<>>)

\* ", ".join(names)
RECURSIVE Join(_, _)
Join(sep, names) ==
    IF names = <<>> THEN ""
    ELSE IF Len(names) = 1 THEN names[1]
    ELSE names[1] \o sep \o Join(sep, Tail(names))

Names(nodes) == [i \in 1..Len(nodes) |-> getName(nodes[i])]

\* The text of lines 106-112, its tips shortened.
WarningText(nodes) ==
    "Some models may not be printed optimal due to object size and chosen material for models: "
    \o Join(", ", Names(nodes)) \o ".\nTips"

----------------------------------------------------------------------------
(* The plugin object.                                                      *)

\* __init__ (lines 28-44); the host starts with an empty scene and no
\* active machine.
Init ==
    /\ scene = EmptyScene
    /\ stack = None
    /\ button_view = None
    /\ views_created = 0
    /\ has_warnings = FALSE
    /\ happy_visible = FALSE
    /\ caution_visible = FALSE
    /\ caution_text = ""
    /\ initialized = FALSE
    /\ material_connected = 0
    /\ emitted = 0
    /\ warning_nodes = None
    /\ poll = None

\* The state a direct call of the check starts from: a constructed plugin
\* in a host with any scene and any machine.
InitCheck ==
    /\ scene \in CheckScenes
    /\ stack \in Stacks
    /\ button_view = None
    /\ views_created = 0
    /\ has_warnings = FALSE
    /\ happy_visible = FALSE
    /\ caution_visible = FALSE
    /\ caution_text = ""
    /\ initialized = FALSE
    /\ material_connected = 0
    /\ emitted = 0
    /\ warning_nodes = None
    /\ poll = None

\* _createView: the component is created, stored and registered.
CreateView ==
    /\ button_view' = Some(views_created + 1)
    /\ views_created' = views_created + 1

\* showWarningMessage without hiding the happy message.
ShowWarningMessageKeepsHappy ==
    /\ caution_visible' = TRUE
    /\ UNCHANGED happy_visible

\* Message.show and Message.hide of the two messages.
showWarningMessage ==
    /\ happy_visible' = FALSE
    /\ caution_visible' = TRUE

showHappyMessage ==
    /\ caution_visible' = FALSE
    /\ happy_visible' = TRUE

\* The scene emits sceneChanged; _onChanged emits onChanged.
SceneChanged(sc) ==
    /\ emitted < MaxEmit
    /\ scene' = sc
    /\ emitted' = emitted + 1
    /\ UNCHANGED <<stack, button_view, views_created, has_warnings,
                   happy_visible, caution_visible, caution_text,
                   initialized, material_connected, warning_nodes, poll>>

\* The host activates or removes a machine; the plugin listens to no signal
\* of it.
GlobalStackChanged(st) ==
    /\ (stack = None) # (st = None)
    /\ stack' = st
    /\ UNCHANGED <<scene, button_view, views_created, has_warnings,
                   happy_visible, caution_visible, caution_text,
                   initialized, material_connected, emitted, warning_nodes, poll>>

\* The machine manager emits rootMaterialChanged; each connection made by
\* _pluginsInitialized emits onChanged.
RootMaterialChanged(st) ==
    /\ stack # None
    /\ st # None
    /\ emitted + material_connected <= MaxEmit
    /\ stack' = st
    /\ emitted' = emitted + material_connected
    /\ UNCHANGED <<scene, button_view, views_created, has_warnings,
                   happy_visible, caution_visible, caution_text,
                   initialized, material_connected, warning_nodes, poll>>

\* _pluginsInitialized without the connection to rootMaterialChanged.
PluginsInitializedUnconnected ==
    /\ ~initialized
    /\ initialized' = TRUE
    /\ CreateView
    /\ UNCHANGED <<scene, stack, has_warnings, happy_visible, caution_visible,
                   caution_text, material_connected, emitted, warning_nodes, poll>>

\* _pluginsInitialized, on the application's initializationFinished, which
\* the host emits once.
PluginsInitialized ==
    /\ ~initialized
    /\ initialized' = TRUE
    /\ material_connected' = material_connected + 1
    /\ CreateView
    /\ UNCHANGED <<scene, stack, has_warnings, happy_visible, caution_visible,
                   caution_text, emitted, warning_nodes, poll>>

\* A direct call of checkObjectsForShrinkage.
CheckObjects ==
    /\ warning_nodes' = Some(checkObjectsForShrinkage(scene, stack))
    /\ UNCHANGED <<scene, stack, button_view, views_created, has_warnings,
                   happy_visible, caution_visible, caution_text,
                   initialized, material_connected, emitted, poll>>

\* A getter that answers from the stored flag instead of the check.
RunChecksFromFlag ==
    /\ warning_nodes' = Some(checkObjectsForShrinkage(scene, stack))
    /\ poll' = Some(Return(has_warnings))
    /\ UNCHANGED <<scene, stack, button_view, views_created, has_warnings,
                   happy_visible, caution_visible, caution_text, initialized,
                   material_connected, emitted>>

\* The getter of the runChecks property.
RunChecks ==
    LET checked == checkObjectsForShrinkage(scene, stack) IN
    /\ warning_nodes' = Some(checked)
    /\ IF checked.raised # ""
       THEN /\ poll' = Some(Raise(checked.raised))
            /\ UNCHANGED caution_text
       ELSE IF checked.value # <<>>
       THEN /\ caution_text' = WarningText(checked.value)
            /\ poll' = Some(Return(TRUE))
       ELSE /\ poll' = Some(Return(FALSE))
            /\ UNCHANGED caution_text
    /\ UNCHANGED <<scene, stack, button_view, views_created, has_warnings,
                   happy_visible, caution_visible, initialized, material_connected, emitted>>

\* The showWarnings slot.
ShowWarnings ==
    /\ IF button_view = None
       THEN CreateView
       ELSE UNCHANGED <<button_view, views_created>>
    /\ IF has_warnings
       THEN showWarningMessage
       ELSE showHappyMessage
    /\ UNCHANGED <<scene, stack, has_warnings, caution_text,
                   initialized, material_connected, emitted, warning_nodes, poll>>

\* Direct calls of showWarningMessage and showHappyMessage.
ShowWarningMessageCall ==
    /\ showWarningMessage
    /\ UNCHANGED <<scene, stack, button_view, views_created, has_warnings,
                   caution_text, initialized, material_connected, emitted, warning_nodes, poll>>

ShowHappyMessageCall ==
    /\ showHappyMessage
    /\ UNCHANGED <<scene, stack, button_view, views_created, has_warnings,
                   caution_text, initialized, material_connected, emitted, warning_nodes, poll>>

\* The happy message's lifetime of 5 seconds ends, or the user closes it.
HappyMessageHidden ==
    /\ happy_visible
    /\ happy_visible' = FALSE
    /\ UNCHANGED <<scene, stack, button_view, views_created, has_warnings,
                   caution_visible, caution_text, initialized, material_connected, emitted,
                   warning_nodes, poll>>

\* The user closes the caution message (lifetime 0: it never expires).
CautionMessageHidden ==
    /\ caution_visible
    /\ caution_visible' = FALSE
    /\ UNCHANGED <<scene, stack, button_view, views_created, has_warnings,
                   happy_visible, caution_text, initialized, material_connected, emitted,
                   warning_nodes, poll>>

Next ==
    \/ \E sc \in PluginScenes : SceneChanged(sc)
    \/ \E st \in PluginStacks : GlobalStackChanged(st)
    \/ \E st \in PluginStacks : RootMaterialChanged(st)
    \/ PluginsInitialized
    \/ RunChecks
    \/ ShowWarnings
    \/ ShowWarningMessageCall
    \/ ShowHappyMessageCall
    \/ HappyMessageHidden
    \/ CautionMessageHidden

Spec == Init /\ [][Next]_vars

NextCheck ==
    \/ CheckObjects
    \/ RunChecks

SpecCheck == InitCheck /\ [][NextCheck]_vars

----------------------------------------------------------------------------
(* What the claims speak of, stated on the host's state alone.             *)

\* The nodes below the root.
SceneNodes(sc) == 1..sc.n

IsSliceable(sc, node) == sc.attrs[node].isSliceable = "True"

\* The machine has an extruder at the node's active extruder position.
HasEntry(sc, st, node) ==
    /\ st # None
    /\ sc.attrs[node].extruder \in DOMAIN st[1]

\* The shrinkage, in tenths of a percent, of the material in the node's
\* extruder; an unset property counts as 0.
ShrinkageOf(sc, st, node) ==
    LET v == st[1][sc.attrs[node].extruder] IN
    IF v = None THEN 0 ELSE v[1]

\* Shrinkage above 0.5 percent and a width or depth of 150 or a height of
\* 100 at least.
OughtToFlag(sc, st, node) ==
    /\ IsSliceable(sc, node)
    /\ HasEntry(sc, st, node)
    /\ ShrinkageOf(sc, st, node) > 5
    /\ \/ sc.attrs[node].width >= 150
       \/ sc.attrs[node].depth >= 150
       \/ sc.attrs[node].height >= 100

\* Some sliceable node's extruder position is missing from the machine.
SomeEntryMissing(sc, st) ==
    \E node \in SceneNodes(sc) : IsSliceable(sc, node) /\ ~HasEntry(sc, st, node)

SomeNodeFlagged(sc, st) ==
    \E node \in SceneNodes(sc) : OughtToFlag(sc, st, node)

Members(seq) == { seq[i] : i \in 1..Len(seq) }

NoDuplicates(seq) == \A i, j \in 1..Len(seq) : seq[i] = seq[j] => i = j

\* The names of the nodes, each followed by ", " except the last.
RECURSIVE NameList(_, _)
NameList(nodes, i) ==
    IF i > Len(nodes) THEN ""
    ELSE "n" \o ToString(nodes[i])
         \o (IF i < Len(nodes) THEN ", " ELSE "")
         \o NameList(nodes, i + 1)

----------------------------------------------------------------------------
(* C1. With an entry in the shrinkage map for every sliceable node's       *)
(* extruder position, checkObjectsForShrinkage returns, and a sliceable    *)
(* node is in the returned list if and only if its material's shrinkage is *)
(* strictly above 0.5 and its width is at least 150 or its depth at least  *)
(* 150 or its height at least 100.                                         *)
C1_FlaggedIffShrinkingAndLarge ==
    (warning_nodes # None /\ ~SomeEntryMissing(scene, stack)) =>
        /\ warning_nodes[1].raised = ""
        /\ \A node \in SceneNodes(scene) : IsSliceable(scene, node) =>
              (node \in Members(warning_nodes[1].value)
                 <=> OughtToFlag(scene, stack, node))

\* A returned list that leaves out an oversized sliceable node whose
\* shrinkage is exactly 0.5 and holds a node whose only large extent is a
\* width of exactly 150.
C1_Witness ==
    /\ warning_nodes # None
    /\ ~SomeEntryMissing(scene, stack)
    /\ \E a, b \in SceneNodes(scene) :
         /\ IsSliceable(scene, a)
         /\ ShrinkageOf(scene, stack, a) = 5
         /\ scene.attrs[a].height = 100
         /\ a \notin Members(warning_nodes[1].value)
         /\ IsSliceable(scene, b)
         /\ ShrinkageOf(scene, stack, b) = 6
         /\ scene.attrs[b].width = 150
         /\ scene.attrs[b].depth < 150
         /\ scene.attrs[b].height < 100
         /\ b \in Members(warning_nodes[1].value)

----------------------------------------------------------------------------
(* C2. showWarnings shows the caution message whenever some model of the   *)
(* current scene is flagged, and the happy message only when none is.      *)
C2_ShowWarningsFollowsCheck ==
    [][ShowWarnings =>
         /\ SomeNodeFlagged(scene, stack) /\ ~SomeEntryMissing(scene, stack)
              => caution_visible'
         /\ happy_visible' => ~SomeNodeFlagged(scene, stack)]_vars

----------------------------------------------------------------------------
(* C3. A read of runChecks returns True if and only if the check, on the   *)
(* scene and the machine as they are at that read, returns a list with a   *)
(* flagged node; it returns False when the check returns an empty list,    *)
(* whatever was read or shown before.                                      *)
C3_PollReflectsCurrentState ==
    [][RunChecks =>
         /\ poll' # None
         /\ (poll'[1].raised = "" /\ poll'[1].value)
              <=> (SomeNodeFlagged(scene, stack) /\ ~SomeEntryMissing(scene, stack))
         /\ (poll'[1].raised = "" /\ ~poll'[1].value)
              <=> (~SomeNodeFlagged(scene, stack) /\ ~SomeEntryMissing(scene, stack))]_vars

\* A read that returned True after the view's button was used, with a
\* flagged node in the scene.
C3_Witness ==
    /\ poll # None
    /\ poll[1].raised = ""
    /\ poll[1].value
    /\ button_view # None
    /\ SomeNodeFlagged(scene, stack)

----------------------------------------------------------------------------
(* C4. Whenever showWarnings or showWarningMessage leaves the caution      *)
(* message visible, its text names exactly the models flagged for the      *)
(* scene and machine of that moment.                                       *)
C4_TextCurrentWhenShown ==
    [][((ShowWarnings \/ ShowWarningMessageCall) /\ caution_visible') =>
         /\ caution_text' # ""
         /\ caution_text' =
              WarningText(SelectSeq(DepthFirstIterator(scene'),
                                    LAMBDA node : node # Root
                                                  /\ OughtToFlag(scene', stack', node)))]_vars

----------------------------------------------------------------------------
(* C5. The happy message and the caution message are never both visible;   *)
(* right after showWarningMessage exactly the caution message is visible,  *)
(* right after showHappyMessage exactly the happy message.                 *)
C5_MessagesExclusive ==
    /\ [](~(happy_visible /\ caution_visible))
    /\ [][ShowWarningMessageCall => (caution_visible' /\ ~happy_visible')]_vars
    /\ [][ShowHappyMessageCall => (happy_visible' /\ ~caution_visible')]_vars

\* The caution message alone is visible, after the happy message was shown
\* through the button.
C5_Witness ==
    /\ caution_visible
    /\ ~happy_visible
    /\ button_view # None

----------------------------------------------------------------------------
(* C6. The list checkObjectsForShrinkage returns is the traversal from the *)
(* root restricted to the flagged sliceable nodes: no node that is not     *)
(* sliceable is in it, none is in it twice, and the order is the           *)
(* traversal's; the text runChecks sets joins the names with ", " in that  *)
(* order.                                                                  *)
C6_ListIsFlaggedSubsequence ==
    (warning_nodes # None /\ warning_nodes[1].raised = "") =>
        LET returned == warning_nodes[1].value IN
        /\ returned = SelectSeq(DepthFirstIterator(scene),
                                LAMBDA node : node # Root /\ OughtToFlag(scene, stack, node))
        /\ \A node \in Members(returned) : IsSliceable(scene, node)
        /\ NoDuplicates(returned)
        /\ (poll # None /\ returned # <<>>) =>
              caution_text =
                "Some models may not be printed optimal due to object size and chosen material for models: "
                \o NameList(returned, 1) \o ".\nTips"

\* Two flagged nodes returned against the order of their creation, next to
\* the text that names them.
C6_Witness ==
    /\ warning_nodes # None
    /\ warning_nodes[1].raised = ""
    /\ warning_nodes[1].value = <<2, 1>>
    /\ poll # None
    /\ caution_text =
         "Some models may not be printed optimal due to object size and chosen material for models: n2, n1.\nTips"

----------------------------------------------------------------------------
(* C7. Every sceneChanged event causes exactly one emission of onChanged;  *)
(* a rootMaterialChanged event causes an emission once                     *)
(* initializationFinished has been delivered, and none before.             *)
C7_ChangesEmitOnChanged ==
    [][/\ (\E sc \in PluginScenes : SceneChanged(sc)) => emitted' = emitted + 1
       /\ (\E st \in PluginStacks : RootMaterialChanged(st)) =>
             IF initialized THEN emitted' >= emitted + 1
                            ELSE emitted' = emitted]_vars

\* Emissions have been counted after initialization, with a machine whose
\* material can change.
C7_Witness ==
    /\ initialized
    /\ stack # None
    /\ emitted >= 2

----------------------------------------------------------------------------
(* C8. checkObjectsForShrinkage and runChecks never raise, also without an *)
(* active machine and for a sliceable node whose extruder position has no  *)
(* entry in the shrinkage map.                                             *)
C8_CheckNeverRaises ==
    /\ warning_nodes # None => warning_nodes[1].raised = ""
    /\ poll # None => poll[1].raised = ""

----------------------------------------------------------------------------
(* C9. The button view is created and registered at most once, whatever    *)
(* the order of initializationFinished and the showWarnings calls, and a   *)
(* view exists once either has run.                                        *)
C9_ViewCreatedAtMostOnce ==
    /\ views_created <= 1
    /\ initialized => button_view # None

====
